---------------------------- MODULE Spec2Model ----------------------------
(***************************************************************************)
(* A model of the AppGenie repository's record de-duplication script       *)
(* (src/dedup.py): the field normalizer preProcess, the CSV loader         *)
(* readData, the writer writeResults, and the control flow of setup/main   *)
(* over the settings file, the training file and the output file.          *)
(*                                                                         *)
(* Text is a sequence of one-character strings.  None stands for Python's  *)
(* None.  A call that can raise returns a record with a "raised" flag.     *)
(* The four file paths given on the command line are taken to be distinct. *)
(***************************************************************************)
EXTENDS Integers, Sequences, FiniteSets, TLC

(***************************************************************************)
(* Bounds of the model.                                                    *)
(***************************************************************************)
MaxLen == 4        \* longest raw text given to preProcess
MaxRows == 2       \* most data rows of an enumerated CSV file
MaxClusters == 2   \* most clusters handed to writeResults
MaxRuns == 2       \* most consecutive runs of the script
MaxLabels == 2     \* most answers the oracle gives in one labeling session

None == <<"<None>">>   \* not a text: "<None>" is no character

SP == " "
NL == "\n"
DQ == "\""
SQ == "'"
EAcute == "e_acute"   \* one non-ASCII character, U+00E9

Chars == {"a", "A", EAcute, SP, NL, DQ, SQ}

RECURSIVE SeqsUpTo(_, _)
SeqsUpTo(S, n) ==
  IF n = 0 THEN {<<>>}
  ELSE LET shorter == SeqsUpTo(S, n - 1)
       IN  shorter \cup {Append(s, c) : s \in {t \in shorter : Len(t) = n - 1}, c \in S}

Texts == SeqsUpTo(Chars, MaxLen)

(***************************************************************************)
(* preProcess (src/dedup.py:34-41)                                         *)
(***************************************************************************)

\* unidecode: the closest ASCII text of one character
UnidecodeChar(c) == IF c = EAcute THEN <<"e">> ELSE <<c>>

RECURSIVE unidecode(_)
unidecode(s) ==
  IF s = <<>> THEN <<>> ELSE UnidecodeChar(Head(s)) \o unidecode(Tail(s))

\* re.sub("  +", " ", s): every maximal run of two or more spaces becomes one space
RECURSIVE SubSpaces(_)
SubSpaces(s) ==
  IF Len(s) < 2 THEN s
  ELSE IF s[1] = SP /\ s[2] = SP THEN SubSpaces(Tail(s))
  ELSE <<Head(s)>> \o SubSpaces(Tail(s))

\* re.sub("\n", " ", s): every newline becomes a space
SubNewlines(s) == [i \in 1..Len(s) |-> IF s[i] = NL THEN SP ELSE s[i]]

RECURSIVE LStrip(_, _)
LStrip(s, cs) ==
  IF s # <<>> /\ Head(s) \in cs THEN LStrip(Tail(s), cs) ELSE s

RECURSIVE RStrip(_, _)
RStrip(s, cs) ==
  IF s # <<>> /\ s[Len(s)] \in cs THEN RStrip(SubSeq(s, 1, Len(s) - 1), cs) ELSE s

\* str.strip(chars)
Strip(s, cs) == RStrip(LStrip(s, cs), cs)

Whitespace == {SP, NL}

LowerChar(c) == IF c = "A" THEN "a" ELSE c

\* str.lower()
Lower(s) == [i \in 1..Len(s) |-> LowerChar(s[i])]

\* line 38: column.strip().strip('"').strip("'").lower().strip()
StripChain(s) ==
  Strip(Lower(Strip(Strip(Strip(s, Whitespace), {DQ}), {SQ})), Whitespace)

Returned(v) == [raised |-> FALSE, value |-> v]
Raised(e) == [raised |-> TRUE, value |-> <<e>>]

\* On None, unidecode (line 35) and re.sub (line 36) raise: neither takes None.
preProcess(column) ==
  IF column = None THEN Raised("TypeError")
  ELSE LET c == StripChain(SubNewlines(SubSpaces(unidecode(column))))
       IN  Returned(IF c = <<>> THEN None ELSE c)

(***************************************************************************)
(* readData (src/dedup.py:44-56)                                           *)
(*                                                                         *)
(* A CSV file is its header (the column names) and its data rows, each a   *)
(* sequence of raw cells.  csv.DictReader skips an empty row, gives the    *)
(* columns a short row lacks the value None, and puts the surplus cells of *)
(* a long row, as a list, under the key None.                              *)
(***************************************************************************)
IdColumn == "listing_id"

Range(f) == {f[i] : i \in DOMAIN f}

\* The dictionary DictReader yields for one row: column -> raw cell or None.
\* (The surplus cells of a long row are told apart by LongRow.)
DictRow(header, row) ==
  [k \in Range(header) |->
     LET i == CHOOSE j \in 1..Len(header) : header[j] = k
     IN  IF i <= Len(row) THEN row[i] ELSE None]

LongRow(header, row) == Len(row) > Len(header)

\* line 53: clean_row = [(k, preProcess(v)) for (k, v) in row.items()]
CleanRowRaises(header, row) ==
  \/ LongRow(header, row)                  \* preProcess of a list
  \/ \E k \in Range(header) : preProcess(DictRow(header, row)[k]).raised

CleanRow(header, row) ==
  [k \in Range(header) |-> preProcess(DictRow(header, row)[k]).value]

\* a plausible slip: row.get("listing_id") for row["listing_id"], so that a row
\* without the column is filed under None
RECURSIVE ReadRowsGet(_, _, _)
ReadRowsGet(header, rows, data_d) ==
  IF rows = <<>> THEN Returned(data_d)
  ELSE LET row == Head(rows)
       IN  IF row = <<>> THEN ReadRowsGet(header, Tail(rows), data_d)
           ELSE IF CleanRowRaises(header, row) THEN Raised("TypeError")
           ELSE LET row_id == IF IdColumn \in Range(header)
                              THEN DictRow(header, row)[IdColumn] ELSE None
                    others == DOMAIN data_d \ {row_id}
                IN  ReadRowsGet(header, Tail(rows),
                                [i \in others \cup {row_id} |->
                                   IF i = row_id THEN CleanRow(header, row)
                                   ELSE data_d[i]])

\* a plausible slip: keeping the record already filed under a row_id, so that
\* the first of several rows with one listing_id wins
RECURSIVE ReadRowsFirstWins(_, _, _)
ReadRowsFirstWins(header, rows, data_d) ==
  IF rows = <<>> THEN Returned(data_d)
  ELSE LET row == Head(rows)
       IN  IF row = <<>> THEN ReadRowsFirstWins(header, Tail(rows), data_d)
           ELSE IF CleanRowRaises(header, row) THEN Raised("TypeError")
           ELSE IF IdColumn \notin Range(header) THEN Raised("KeyError")
           ELSE LET row_id == DictRow(header, row)[IdColumn]
                IN  ReadRowsFirstWins(header, Tail(rows),
                             [i \in DOMAIN data_d \cup {row_id} |->
                                IF i \in DOMAIN data_d THEN data_d[i]
                                ELSE CleanRow(header, row)])

\* lines 52-55: the loop over the rows, data_d being the dictionary so far
RECURSIVE ReadRows(_, _, _)
ReadRows(header, rows, data_d) ==
  IF rows = <<>> THEN Returned(data_d)
  ELSE LET row == Head(rows)
       IN  IF row = <<>> THEN ReadRows(header, Tail(rows), data_d)
           ELSE IF CleanRowRaises(header, row) THEN Raised("TypeError")
           ELSE IF IdColumn \notin Range(header) THEN Raised("KeyError")
           ELSE LET row_id == DictRow(header, row)[IdColumn]
                    others == DOMAIN data_d \ {row_id}
                IN  ReadRows(header, Tail(rows),
                             [i \in others \cup {row_id} |->
                                IF i = row_id THEN CleanRow(header, row)
                                ELSE data_d[i]])

EmptyDict == [i \in {} |-> None]

readData(file) == ReadRows(file.header, file.rows, EmptyDict)

(***************************************************************************)
(* writeResults (src/dedup.py:104-111): the cluster_membership dictionary  *)
(* it builds.  A cluster is (records, scores); later assignments to the    *)
(* same record id replace earlier ones.                                    *)
(***************************************************************************)
Min(a, b) == IF a < b THEN a ELSE b

\* line 109: the identifier given to the cluster at 1-based position k
ClusterIdOneBased(k) == k

ClusterIdAt(k) == k - 1

\* a plausible slip: the score is taken at the cluster's position k for the
\* member's position j
RECURSIVE AssignClusterScoreAtK(_, _, _, _)
AssignClusterScoreAtK(m, k, cluster, j) ==
  IF j > Min(Len(cluster.records), Len(cluster.scores)) THEN m
  ELSE LET record_id == cluster.records[j]
           entry == [ClusterID |-> ClusterIdAt(k),
                     confidence_score |-> cluster.scores[Min(k, Len(cluster.scores))]]
       IN  AssignClusterScoreAtK([i \in DOMAIN m \cup {record_id} |->
                                    IF i = record_id THEN entry ELSE m[i]],
                                 k, cluster, j + 1)

\* lines 107-111: zip(records, scores) of the cluster at position k
RECURSIVE AssignCluster(_, _, _, _)
AssignCluster(m, k, cluster, j) ==
  IF j > Min(Len(cluster.records), Len(cluster.scores)) THEN m
  ELSE LET record_id == cluster.records[j]
           entry == [ClusterID |-> ClusterIdAt(k), confidence_score |-> cluster.scores[j]]
       IN  AssignCluster([i \in DOMAIN m \cup {record_id} |->
                            IF i = record_id THEN entry ELSE m[i]],
                         k, cluster, j + 1)

\* line 106: enumerate(clustered_dupes)
RECURSIVE AssignFrom(_, _, _)
AssignFrom(m, clustered_dupes, k) ==
  IF k > Len(clustered_dupes) THEN m
  ELSE AssignFrom(AssignCluster(m, k, clustered_dupes[k], 1), clustered_dupes, k + 1)

writeResults(clustered_dupes) == AssignFrom(EmptyDict, clustered_dupes, 1)

(***************************************************************************)
(* The state.                                                              *)
(*                                                                         *)
(* column, result, again, ppc: one text, preProcess of it, preProcess of   *)
(* that result, and how far the calls have got.                            *)
(* filename, read, rpc: a CSV file and what readData returns for it.       *)
(* dupes, cluster_membership, wpc: a cluster list and the dictionary       *)
(* writeResults builds from it.                                            *)
(*                                                                         *)
(* The rest is one execution of the script after another:                  *)
(*   pc               where main/setup stands                              *)
(*   run              the number of the execution                          *)
(*   input_file       the CSV file at --input (may not exist)              *)
(*   fields           the field list given with --fields                   *)
(*   settings_file, training_file, output_file   the files on disk         *)
(*   start_settings, start_training, start_output  the files as they were  *)
(*                    when the execution started                           *)
(*   data_d, deduper, clustered_dupes   setup's local variables            *)
(*   labeled          the examples the oracle labeled in this session      *)
(*   answers          the number of answers the oracle has given           *)
(*   events           the library calls made so far in this execution      *)
(*   printed          what main printed after "# duplicate sets"           *)
(*   error            the call that raised, when pc = "failed"             *)
(*   trained_ever     whether train has returned in this or an earlier     *)
(*                    execution (a history variable)                       *)
(*   arrival, membership_permuted, opc                                     *)
(*                    the clusters of dupes in another order of arrival,   *)
(*                    what writeResults builds from them, and whether both *)
(*                    calls have been made                                 *)
(*   dataframe        the DataFrameCleaner's self.dataframe                *)
(*   dataframe_before the same when remove_columns was called              *)
(*   columns          the argument of remove_columns                       *)
(*   debug            whether assert statements are executed (__debug__)   *)
(*   removed, cpc     the outcome of the call, and whether it was made     *)
(*   dataframes       the ExcelHandler's cache self.dataframes             *)
(*   workbook         the Excel file at file_path                          *)
(*   returned         what the last call on the handler returned           *)
(*   calls            the calls made on the handler so far, with their     *)
(*                    arguments and whether the file operation failed (a   *)
(*                    history variable)                                    *)
(*   connection       the SnowflakeQueryRunner's self.connection: None, an *)
(*                    open connection or a closed one                      *)
(*   open_cursors     the cursors execute_query opened and has not closed  *)
(*   fetched          what the last call on the runner returned or raised  *)
(*   sf_calls         the calls made on the runner so far (a history       *)
(*                    variable)                                            *)
(*   execution        the number of this execution of the app script       *)
(*   app_pc           where the execution is                               *)
(*   clicked          whether 'Write App' was clicked for this execution   *)
(*   feature_input    the text of the text area                            *)
(*   prompt, summary  self.prompt and the local summary of display_ui      *)
(*   zip_file         the file AppGenie.zip                                *)
(*   offered          the data behind the 'Download App' button            *)
(*   app_error        the exception that ended the execution               *)
(***************************************************************************)
VARIABLES column, result, again, ppc,
          filename, read, rpc,
          dupes, cluster_membership, wpc,
          pc, run, input_file, fields,
          settings_file, training_file, output_file,
          start_settings, start_training, start_output,
          data_d, deduper, clustered_dupes,
          labeled, answers, events, printed, error,
          trained_ever,
          arrival, membership_permuted, opc,
          dataframe, dataframe_before, columns, debug, removed, cpc,
          dataframes, workbook, returned, calls,
          connection, open_cursors, fetched, sf_calls,
          execution, app_pc, clicked, feature_input, prompt, summary,
          zip_file, offered, app_error

preVars == <<column, result, again, ppc>>
readVars == <<filename, read, rpc>>
writeVars == <<dupes, cluster_membership, wpc>>
files == <<settings_file, training_file, output_file>>
startFiles == <<start_settings, start_training, start_output>>
locals == <<data_d, deduper, clustered_dupes, labeled, answers, events, printed, error>>
runVars == <<pc, run, trained_ever, input_file, fields, files, startFiles, locals>>
orderVars == <<arrival, membership_permuted, opc>>
cleanVars == <<dataframe, dataframe_before, columns, debug, removed, cpc>>
excelVars == <<dataframes, workbook, returned, calls>>
snowVars == <<connection, open_cursors, fetched, sf_calls>>
appVars == <<execution, app_pc, clicked, feature_input, prompt, summary,
             zip_file, offered, app_error>>
extVars == <<orderVars, cleanVars, excelVars, snowVars, appVars>>
vars == <<preVars, readVars, writeVars, runVars, extVars>>

(***************************************************************************)
(* preProcess applied once and then to its own result.                     *)
(***************************************************************************)
NotCalled == [raised |-> FALSE, value |-> <<"<not called>">>]

PreIdle == column = <<>> /\ result = NotCalled /\ again = NotCalled /\ ppc = "idle"
ReadIdle == filename = [header |-> <<>>, rows |-> <<>>] /\ read = NotCalled /\ rpc = "idle"
WriteIdle == dupes = <<>> /\ cluster_membership = EmptyDict /\ wpc = "idle"

CallPreProcess ==
  /\ ppc = "start"
  /\ result' = preProcess(column)
  /\ ppc' = "once"
  /\ UNCHANGED <<column, again, readVars, writeVars, runVars, extVars>>

CallPreProcessAgain ==
  /\ ppc = "once"
  /\ ~result.raised
  /\ again' = preProcess(result.value)
  /\ ppc' = "twice"
  /\ UNCHANGED <<column, result, readVars, writeVars, runVars, extVars>>

(***************************************************************************)
(* readData applied to a CSV file.                                         *)
(***************************************************************************)
Headers == {<<IdColumn, "name">>, <<"name", IdColumn>>, <<"name">>}
Cells == {<<"1">>, <<"2">>, <<"A", SP>>}
Rows == SeqsUpTo(Cells, 3)
CsvFiles == [header : Headers, rows : SeqsUpTo(Rows, MaxRows)]

CallReadData ==
  /\ rpc = "start"
  /\ read' = readData(filename)
  /\ rpc' = "read"
  /\ UNCHANGED <<filename, preVars, writeVars, runVars, extVars>>

(***************************************************************************)
(* writeResults applied to a cluster list.                                 *)
(***************************************************************************)
RecordIds == {"r1", "r2", "r3", "r4"}
Scores == {6, 9}     \* confidence scores, in tenths

NoRepeats(s) == \A i, j \in 1..Len(s) : i # j => s[i] # s[j]

Clusters ==
  UNION {{[records |-> r, scores |-> sc] : sc \in [1..Len(r) -> Scores]} :
           r \in {t \in SeqsUpTo(RecordIds, 2) : t # <<>> /\ NoRepeats(t)}}

ClusterLists == SeqsUpTo(Clusters, MaxClusters)

CallWriteResults ==
  /\ wpc = "start"
  /\ cluster_membership' = writeResults(dupes)
  /\ wpc' = "written"
  /\ UNCHANGED <<dupes, preVars, readVars, runVars, extVars>>

(***************************************************************************)
(* writeResults applied to the clusters match returned and to the same     *)
(* clusters arriving in another order.  match returns clusters that share  *)
(* no record.                                                              *)
(***************************************************************************)
Members(cluster) == Range(cluster.records)

PairwiseDisjoint(cl) ==
  \A i, j \in 1..Len(cl) : i # j => Members(cl[i]) \cap Members(cl[j]) = {}

MatchedLists == {cl \in ClusterLists : PairwiseDisjoint(cl)}

Orders(n) == {p \in [1..n -> 1..n] : \A i, j \in 1..n : i # j => p[i] # p[j]}

OrderIdle == arrival = <<>> /\ membership_permuted = EmptyDict /\ opc = "idle"

CallWriteResultsPermuted ==
  /\ opc = "start"
  /\ \E p \in Orders(Len(dupes)) :
       LET permuted == [i \in 1..Len(dupes) |-> dupes[p[i]]]
       IN  /\ arrival' = permuted
           /\ membership_permuted' = writeResults(permuted)
  /\ cluster_membership' = writeResults(dupes)
  /\ opc' = "written"
  /\ UNCHANGED <<dupes, wpc, preVars, readVars, runVars, cleanVars, excelVars,
                 snowVars, appVars>>

(***************************************************************************)
(* DataFrameCleaner.remove_columns (src/dataprocessor.py:79-86).           *)
(*                                                                         *)
(* A dataframe is its column labels in order and its rows, a row mapping   *)
(* each label to a cell.  The argument is a list of labels or one label    *)
(* (a str).                                                                *)
(***************************************************************************)
MaxFrameRows == 1

Labels3 == {"age", "dob", "name"}
CellValues == {0, 1}

ColumnLists == {c \in SeqsUpTo(Labels3, 3) : NoRepeats(c)}

Frames(cols) ==
  [columns : {cols}, rows : SeqsUpTo([Range(cols) -> CellValues], MaxFrameRows)]

EmptyFrame == [columns |-> <<>>, rows |-> <<>>]

ListOf(names) == [islist |-> TRUE, names |-> names]
StrOf(name) == [islist |-> FALSE, names |-> <<name>>]

Arguments ==
  {ListOf(n) : n \in SeqsUpTo(Labels3, 2)} \cup {StrOf(n) : n \in Labels3}

\* line 83: columns in self.dataframe.columns.  Index.__contains__ hashes its
\* key first, and a list has no hash: the test raises for every list.  For a
\* str it is the membership test.
InColumns(arg, frame) ==
  IF arg.islist THEN Raised("TypeError")
  ELSE Returned(IF arg.names[1] \in Range(frame.columns) THEN <<"True">> ELSE <<"False">>)

\* the entries of s that are not in dropped, in the order of s
RECURSIVE Without(_, _)
Without(s, dropped) ==
  IF s = <<>> THEN <<>>
  ELSE IF Head(s) \in dropped THEN Without(Tail(s), dropped)
       ELSE <<Head(s)>> \o Without(Tail(s), dropped)

\* line 85: self.dataframe.drop(columns, axis=1)
drop(frame, arg) ==
  IF ~(Range(arg.names) \subseteq Range(frame.columns)) THEN Raised("KeyError")
  ELSE LET kept == Without(frame.columns, Range(arg.names))
       IN  [raised |-> FALSE,
            value |-> [columns |-> kept,
                       rows |-> [i \in 1..Len(frame.rows) |->
                                   [c \in Range(kept) |-> frame.rows[i][c]]]]]

\* lines 82-86, the outcome and the dataframe left
remove_columns(frame, arg, asserts) ==
  IF asserts /\ ~arg.islist
  THEN [outcome |-> Raised("AssertionError"), frame |-> frame]
  ELSE IF asserts /\ InColumns(arg, frame).raised
  THEN [outcome |-> InColumns(arg, frame), frame |-> frame]
  ELSE IF asserts /\ InColumns(arg, frame).value = <<"False">>
  THEN [outcome |-> Raised("AssertionError"), frame |-> frame]
  ELSE IF drop(frame, arg).raised
  THEN [outcome |-> drop(frame, arg), frame |-> frame]
  ELSE [outcome |-> Returned(None), frame |-> drop(frame, arg).value]

CleanIdle ==
  /\ dataframe = EmptyFrame /\ dataframe_before = EmptyFrame
  /\ columns = ListOf(<<>>) /\ debug = TRUE
  /\ removed = NotCalled /\ cpc = "idle"

CallRemoveColumns ==
  /\ cpc = "start"
  /\ dataframe_before' = dataframe
  /\ removed' = remove_columns(dataframe, columns, debug).outcome
  /\ dataframe' = remove_columns(dataframe, columns, debug).frame
  /\ cpc' = "called"
  /\ UNCHANGED <<columns, debug, preVars, readVars, writeVars, runVars, orderVars,
                 excelVars, snowVars, appVars>>

(***************************************************************************)
(* ExcelHandler (src/excel.py:6-88): read_sheet, save_sheet and            *)
(* get_dataframe on one handler.                                           *)
(*                                                                         *)
(* pandas is outside the repository: read_excel returns the frame the file *)
(* holds under the sheet name or raises; ExcelWriter in mode "a" needs the *)
(* file to exist, replaces the sheet when the with block ends, and may     *)
(* raise before or after the file has changed.                             *)
(***************************************************************************)
MaxCalls == 3

Sheets == {"s1", "s2"}
DataFrames == {<<"df1">>, <<"df2">>}

NoSheets == [s \in {} |-> None]

Put(d, k, v) == [i \in DOMAIN d \cup {k} |-> IF i = k THEN v ELSE d[i]]

\* dict.get(key, None)
Get(d, k) == IF k \in DOMAIN d THEN d[k] ELSE None

NoWorkbook == [exists |-> FALSE, sheets |-> NoSheets]
Workbook(sheets) == [exists |-> TRUE, sheets |-> sheets]

InitialWorkbooks ==
  {NoWorkbook, Workbook(NoSheets), Workbook(Put(NoSheets, "s1", <<"df1">>))}

Call(op, sheet_name, df, failed) ==
  [op |-> op, sheet_name |-> sheet_name, df |-> df, failed |-> failed]

ExcelIdle ==
  /\ dataframes = NoSheets /\ workbook = NoWorkbook
  /\ returned = NotCalled /\ calls = <<>>

OtherThanExcel ==
  <<preVars, readVars, writeVars, runVars, orderVars, cleanVars, snowVars,
    appVars>>

\* lines 22-26: read_excel returns df; the cache takes it; read_sheet returns it
ReadSheetReturns ==
  /\ Len(calls) < MaxCalls
  /\ workbook.exists
  /\ \E sheet_name \in DOMAIN workbook.sheets :
       LET df == workbook.sheets[sheet_name]
       IN  /\ dataframes' = Put(dataframes, sheet_name, df)
           /\ returned' = Returned(df)
           /\ calls' = Append(calls, Call("read_sheet", sheet_name, df, FALSE))
  /\ UNCHANGED workbook
  /\ UNCHANGED OtherThanExcel

\* lines 23, 27-28: read_excel raises (no file, no such sheet, an I/O error);
\* the handler logs it and read_sheet returns None
ReadSheetFails ==
  /\ Len(calls) < MaxCalls
  /\ \E sheet_name \in Sheets :
       calls' = Append(calls, Call("read_sheet", sheet_name, None, TRUE))
  /\ returned' = Returned(None)
  /\ UNCHANGED <<dataframes, workbook>>
  /\ UNCHANGED OtherThanExcel

\* lines 56-62: the sheet is written, then the cache takes df
SaveSheetReturns ==
  /\ Len(calls) < MaxCalls
  /\ workbook.exists
  /\ \E sheet_name \in Sheets, df \in DataFrames :
       /\ workbook' = Workbook(Put(workbook.sheets, sheet_name, df))
       /\ dataframes' = Put(dataframes, sheet_name, df)
       /\ calls' = Append(calls, Call("save_sheet", sheet_name, df, FALSE))
  /\ returned' = Returned(None)
  /\ UNCHANGED OtherThanExcel

\* a plausible slip: the cache takes df before the writer is opened, so a
\* failed save leaves df in the cache
SaveSheetFailsCached ==
  /\ Len(calls) < MaxCalls
  /\ \E sheet_name \in Sheets, df \in DataFrames :
       /\ dataframes' = Put(dataframes, sheet_name, df)
       /\ calls' = Append(calls, Call("save_sheet", sheet_name, df, TRUE))
  /\ returned' = Returned(None)
  /\ UNCHANGED workbook
  /\ UNCHANGED OtherThanExcel

\* lines 57-60, 63-64: ExcelWriter or to_excel raises inside the try (no file
\* to append to, an I/O error), with the sheet replaced in the file or not;
\* line 61 is not reached
SaveSheetFails ==
  /\ Len(calls) < MaxCalls
  /\ \E sheet_name \in Sheets, df \in DataFrames :
       /\ calls' = Append(calls, Call("save_sheet", sheet_name, df, TRUE))
       /\ \/ UNCHANGED workbook
          \/ /\ workbook.exists
             /\ workbook' = Workbook(Put(workbook.sheets, sheet_name, df))
  /\ returned' = Returned(None)
  /\ UNCHANGED dataframes
  /\ UNCHANGED OtherThanExcel

\* line 88: self.dataframes.get(sheet_name, None)
GetDataframe ==
  /\ Len(calls) < MaxCalls
  /\ \E sheet_name \in Sheets :
       /\ returned' = Returned(Get(dataframes, sheet_name))
       /\ calls' = Append(calls, Call("get_dataframe", sheet_name, None, FALSE))
  /\ UNCHANGED <<dataframes, workbook>>
  /\ UNCHANGED OtherThanExcel

(***************************************************************************)
(* SnowflakeQueryRunner (src/snowflakehandler.py:12-73).                   *)
(*                                                                         *)
(* The connector is outside the repository: connect returns an open        *)
(* connection or raises; cursor() of a closed connection raises; execute   *)
(* and fetchall may raise; close closes.                                   *)
(***************************************************************************)
Queries == {"q1", "q2"}

RowsOf(query) == <<"rows", query>>

SfCall(op, query, failed) == [op |-> op, query |-> query, failed |-> failed]

OtherThanSnow ==
  <<preVars, readVars, writeVars, runVars, orderVars, cleanVars, excelVars,
    appVars>>

SnowIdle ==
  /\ connection = "idle" /\ open_cursors = 0
  /\ fetched = NotCalled /\ sf_calls = <<>>

\* lines 37-39: snf.connect returns
ConnectReturns ==
  /\ Len(sf_calls) < MaxCalls
  /\ connection' = "open"
  /\ fetched' = Returned(None)
  /\ sf_calls' = Append(sf_calls, SfCall("connect_to_snowflake", "", FALSE))
  /\ UNCHANGED open_cursors
  /\ UNCHANGED OtherThanSnow

\* lines 40-42: snf.connect raises; the error is logged and raised again
ConnectRaises ==
  /\ Len(sf_calls) < MaxCalls
  /\ fetched' = Raised("Exception")
  /\ sf_calls' = Append(sf_calls, SfCall("connect_to_snowflake", "", TRUE))
  /\ UNCHANGED <<connection, open_cursors>>
  /\ UNCHANGED OtherThanSnow

\* lines 55-62: the cursor is opened, the query runs, the cursor is closed
ExecuteQueryReturns ==
  /\ Len(sf_calls) < MaxCalls
  /\ connection = "open"
  /\ \E query \in Queries :
       /\ fetched' = Returned(RowsOf(query))
       /\ sf_calls' = Append(sf_calls, SfCall("execute_query", query, FALSE))
  /\ UNCHANGED <<connection, open_cursors>>
  /\ UNCHANGED OtherThanSnow

\* lines 55, 63-65: self.connection.cursor() raises (self.connection is None,
\* or the connection is closed): no cursor was opened
ExecuteQueryWithoutConnection ==
  /\ Len(sf_calls) < MaxCalls
  /\ connection # "open"
  /\ \E query \in Queries :
       sf_calls' = Append(sf_calls, SfCall("execute_query", query, TRUE))
  /\ fetched' = Returned(None)
  /\ UNCHANGED <<connection, open_cursors>>
  /\ UNCHANGED OtherThanSnow

\* lines 55-59, 63-65: the cursor is opened and execute or fetchall raises;
\* the handler returns None and line 60 is not reached
ExecuteQueryFails ==
  /\ Len(sf_calls) < MaxCalls
  /\ connection = "open"
  /\ \E query \in Queries :
       sf_calls' = Append(sf_calls, SfCall("execute_query", query, TRUE))
  /\ open_cursors' = open_cursors + 1
  /\ fetched' = Returned(None)
  /\ UNCHANGED connection
  /\ UNCHANGED OtherThanSnow

\* lines 71-73: if self.connection: self.connection.close()
CloseConnection ==
  /\ Len(sf_calls) < MaxCalls
  /\ connection' = IF connection = "None" THEN "None" ELSE "closed"
  /\ fetched' = Returned(None)
  /\ sf_calls' = Append(sf_calls, SfCall("close_connection", "", FALSE))
  /\ UNCHANGED open_cursors
  /\ UNCHANGED OtherThanSnow

(***************************************************************************)
(* The app script (src/main.py:104-193) executed again and again, as       *)
(* Streamlit does on every interaction.  The language model is outside the *)
(* repository: a completion request returns some text or raises.           *)
(***************************************************************************)
MaxExecutions == 3

\* the text area left empty, or filled in
FeatureInputs == {<<>>, <<"todo app">>, <<"csv report">>}

\* lines 27-39: file_names
HelperFiles ==
  {"bigqueryhandler.py", "csvhandler.py", "dataexplorer.py", "dataprocessor.py",
   "dedup.py", "excel.py", "gpt.py", "sqlitecrud.py", "snowflakehandler.py",
   "streamlithandler.py", "requirements.txt"}

Completion(text) == <<"completion of">> \o text

\* src/gpt.py:32-49: generate_response(self, prompt, system_role="system"),
\* args being the positional arguments of the call after self
generate_response(args) ==
  IF args = <<>> THEN Raised("TypeError") ELSE Returned(Completion(args[1]))

NoZip == [exists |-> FALSE, written_in |-> 0, files |-> {}, main |-> None]

\* a file AppGenie.zip that was in the working directory before the script
\* first ran
LeftoverZip ==
  [exists |-> TRUE, written_in |-> 0, files |-> HelperFiles \cup {"main.py"},
   main |-> <<"older code">>]

\* lines 171-179: the archive download_zip writes to AppGenie.zip
download_zip(option, text, n) ==
  [exists |-> TRUE, written_in |-> n,
   files |-> HelperFiles \cup (IF option = "Generate" /\ text # <<>>
                               THEN {"main.py"} ELSE {}),
   main |-> IF option = "Generate" /\ text # <<>> THEN text ELSE None]

AppIdle ==
  /\ execution = 0 /\ app_pc = "idle" /\ clicked = FALSE
  /\ feature_input = <<>> /\ prompt = <<>> /\ summary = None
  /\ zip_file = NoZip /\ offered = None /\ app_error = ""

OtherThanApp ==
  <<preVars, readVars, writeVars, runVars, orderVars, cleanVars, excelVars,
    snowVars>>

AppFail(e) == app_pc' = "failed" /\ app_error' = e

\* lines 137-144: the prompt is built and PromptOptimizer.response() returns
OptimizePrompt ==
  /\ app_pc = "display_ui"
  /\ prompt' = generate_response(<<feature_input>>).value
  /\ app_pc' = "button"
  /\ UNCHANGED <<execution, clicked, feature_input, summary, zip_file, offered,
                 app_error>>
  /\ UNCHANGED OtherThanApp

\* line 144: the completion request of PromptOptimizer raises
OptimizePromptRaises ==
  /\ app_pc = "display_ui"
  /\ AppFail("APIError")
  /\ UNCHANGED <<execution, clicked, feature_input, prompt, summary, zip_file,
                 offered>>
  /\ UNCHANGED OtherThanApp

\* lines 146-161: 'Write App' was clicked.  Line 153 calls generate_response
\* with no argument; were it to return, download_zip would write the archive.
WriteApp ==
  /\ app_pc = "button"
  /\ clicked
  /\ LET response == generate_response(<<>>)
     IN  IF response.raised
         THEN /\ AppFail(response.value[1])
              /\ UNCHANGED <<summary, zip_file>>
         ELSE /\ summary' = response.value
              /\ zip_file' = download_zip("Generate", response.value, execution)
              /\ app_pc' = "download"
              /\ UNCHANGED app_error
  /\ UNCHANGED <<execution, clicked, feature_input, prompt, offered>>
  /\ UNCHANGED OtherThanApp

\* line 146: the button was not clicked; display_ui returns
NotClicked ==
  /\ app_pc = "button"
  /\ ~clicked
  /\ app_pc' = "download"
  /\ UNCHANGED <<execution, clicked, feature_input, prompt, summary, zip_file,
                 offered, app_error>>
  /\ UNCHANGED OtherThanApp

\* lines 187-193: AppGenie.zip is opened and backs the 'Download App' button
OfferDownload ==
  /\ app_pc = "download"
  /\ zip_file.exists
  /\ offered' = zip_file
  /\ app_pc' = "rendered"
  /\ UNCHANGED <<execution, clicked, feature_input, prompt, summary, zip_file,
                 app_error>>
  /\ UNCHANGED OtherThanApp

\* line 187: there is no AppGenie.zip
OpenZipRaises ==
  /\ app_pc = "download"
  /\ ~zip_file.exists
  /\ AppFail("FileNotFoundError")
  /\ UNCHANGED <<execution, clicked, feature_input, prompt, summary, zip_file,
                 offered>>
  /\ UNCHANGED OtherThanApp

\* the user interacts and Streamlit executes the script again
Rerun ==
  /\ app_pc \in {"rendered", "failed"}
  /\ execution < MaxExecutions
  /\ execution' = execution + 1
  /\ clicked' \in BOOLEAN
  /\ feature_input' \in FeatureInputs
  /\ prompt' = <<>> /\ summary' = None /\ offered' = None /\ app_error' = ""
  /\ app_pc' = "display_ui"
  /\ UNCHANGED zip_file
  /\ UNCHANGED OtherThanApp

ExtIdle == OrderIdle /\ CleanIdle /\ ExcelIdle /\ SnowIdle /\ AppIdle

(***************************************************************************)
(* One execution of the script: main and setup (src/dedup.py:66-134).      *)
(*                                                                         *)
(* The dedupe library is outside the repository.  Its calls are modelled   *)
(* by their documented effect: StaticDedupe reads a stored model,          *)
(* prepare_training takes the labeled examples of a training file into the *)
(* deduper's pool, console_label adds the oracle's labels to the pool,     *)
(* train fits the classifier to the pool and needs an example of each      *)
(* label, write_training writes the pool, write_settings writes the model, *)
(* match returns disjoint clusters of record ids with one score a member.  *)
(* Any of them, and any open of a file, may raise.                         *)
(***************************************************************************)
FieldLists == {<<"name", "phone">>, <<"phone", "name">>, <<"name">>}

\* defineFields (lines 59-63)
defineFields(fs) ==
  [i \in 1..Len(fs) |-> [type |-> "String", field |-> fs[i], has_missing |-> TRUE]]

\* The candidate pairs the labeler shows in a session, in the order it shows
\* them: one for each answer of the oracle.
Pairs == 1..MaxLabels
Labels == {"match", "distinct"}
Examples == [pair : Pairs, label : Labels]

HasBothLabels(pool) ==
  /\ \E e \in pool : e.label = "match"
  /\ \E e \in pool : e.label = "distinct"

NoModel == [fields |-> <<>>, pool |-> {}]
NoSettings == [exists |-> FALSE, intact |-> FALSE, content |-> NoModel]
CorruptSettings == [exists |-> TRUE, intact |-> FALSE, content |-> NoModel]
StoredSettings(model) == [exists |-> TRUE, intact |-> TRUE, content |-> model]

NoTraining == [exists |-> FALSE, intact |-> FALSE, content |-> {}]
TruncatedTraining == [exists |-> TRUE, intact |-> FALSE, content |-> {}]
StoredTraining(pool) == [exists |-> TRUE, intact |-> TRUE, content |-> pool]

NoOutput == [exists |-> FALSE, intact |-> FALSE, content |-> EmptyDict]
\* line 114: the file holds the JSON string of str(cluster_membership)
StoredOutput(m) == [exists |-> TRUE, intact |-> TRUE, content |-> m]

\* The files the first execution may find.
InitialSettings ==
  {NoSettings, CorruptSettings}
    \cup {StoredSettings([fields |-> defineFields(f), pool |-> Examples]) : f \in FieldLists}
InitialPools ==
  {{}, {[pair |-> 1, label |-> "match"]},
   {[pair |-> 1, label |-> "match"], [pair |-> 2, label |-> "distinct"]}}
InitialTraining ==
  {NoTraining, TruncatedTraining} \cup {StoredTraining(p) : p \in InitialPools}

\* The CSV files an execution may be given.
RunHeader == <<IdColumn, "name", "phone">>
TwoRecords ==
  [exists |-> TRUE, header |-> RunHeader,
   rows |-> << <<<<"1">>, <<"A", SP>>, <<"5">>>>, <<<<"2">>, <<"a">>, <<"5">>>> >>]
ThreeRecords ==
  [exists |-> TRUE, header |-> RunHeader,
   rows |-> << <<<<"1">>, <<"a">>, <<"5">>>>, <<<<"2">>, <<"a">>, <<"5">>>>,
               <<<<"3">>, <<"A">>, <<>>>> >>]
ShortRow ==
  [exists |-> TRUE, header |-> RunHeader,
   rows |-> << <<<<"1">>, <<"a">>, <<"5">>>>, <<<<"2">>, <<"a">>>> >>]
NoIdColumn ==
  [exists |-> TRUE, header |-> <<"name", "phone">>,
   rows |-> << <<<<"a">>, <<"5">>>>, <<<<"a">>, <<"5">>>> >>]
NoIdCell ==
  [exists |-> TRUE, header |-> <<"name", IdColumn>>,
   rows |-> << <<<<"a">>, <<"1">>>>, <<<<"a">>>> >>]
MissingInput == [exists |-> FALSE, header |-> <<>>, rows |-> <<>>]
InputFiles == {TwoRecords, ThreeRecords, ShortRow, NoIdColumn, NoIdCell, MissingInput}

NoDeduper == [kind |-> "none", fields |-> <<>>, pool |-> {}, trained |-> FALSE]

LocalsReset ==
  /\ data_d = EmptyDict
  /\ deduper = NoDeduper
  /\ clustered_dupes = <<>>
  /\ labeled = {}
  /\ answers = 0
  /\ events = <<>>
  /\ printed = -1
  /\ error = ""

RunIdle ==
  /\ trained_ever = FALSE
  /\ pc = "idle" /\ run = 0 /\ input_file = MissingInput /\ fields = <<>>
  /\ settings_file = NoSettings /\ training_file = NoTraining /\ output_file = NoOutput
  /\ start_settings = NoSettings /\ start_training = NoTraining /\ start_output = NoOutput
  /\ LocalsReset

Fail(call) == pc' = "failed" /\ error' = call

Log(e) == events' = Append(events, e)

\* lines 68-73: the assertions of setup
SetupAssertRaises ==
  /\ pc = "setup"
  /\ ~input_file.exists
  /\ Fail("assert")
  /\ UNCHANGED <<run, trained_ever, input_file, fields, files, startFiles, data_d, deduper,
                 clustered_dupes, labeled, answers, events, printed>>
  /\ UNCHANGED <<preVars, readVars, writeVars, extVars>>

\* line 76: data_d = readData(input_file)
ReadDataReturns ==
  /\ pc = "setup"
  /\ input_file.exists
  /\ ~readData(input_file).raised
  /\ data_d' = readData(input_file).value
  /\ pc' = "settings?"
  /\ UNCHANGED <<run, trained_ever, input_file, fields, files, startFiles, deduper,
                 clustered_dupes, labeled, answers, events, printed, error>>
  /\ UNCHANGED <<preVars, readVars, writeVars, extVars>>

ReadDataRaises ==
  /\ pc = "setup"
  /\ input_file.exists
  /\ readData(input_file).raised
  /\ Fail("readData")
  /\ UNCHANGED <<run, trained_ever, input_file, fields, files, startFiles, data_d, deduper,
                 clustered_dupes, labeled, answers, events, printed>>
  /\ UNCHANGED <<preVars, readVars, writeVars, extVars>>

\* line 77: os.path.exists(settings_file)
SettingsExistsWrongFile == training_file.exists

SettingsExists == settings_file.exists

\* lines 77-80: deduper = dedupe.StaticDedupe(f)
LoadSettings ==
  /\ pc = "settings?"
  /\ SettingsExists
  /\ settings_file.intact
  /\ deduper' = [kind |-> "static", fields |-> settings_file.content.fields,
                 pool |-> settings_file.content.pool, trained |-> TRUE]
  /\ Log("StaticDedupe")
  /\ pc' = "match"
  /\ UNCHANGED <<run, trained_ever, input_file, fields, files, startFiles, data_d,
                 clustered_dupes, labeled, answers, printed, error>>
  /\ UNCHANGED <<preVars, readVars, writeVars, extVars>>

LoadSettingsRaises ==
  /\ pc = "settings?"
  /\ SettingsExists
  /\ ~settings_file.intact
  /\ Log("StaticDedupe")
  /\ Fail("StaticDedupe")
  /\ UNCHANGED <<run, trained_ever, input_file, fields, files, startFiles, data_d, deduper,
                 clustered_dupes, labeled, answers, printed>>
  /\ UNCHANGED <<preVars, readVars, writeVars, extVars>>

\* lines 83-88: the examples prepare_training is given: those of the training
\* file when it exists, none otherwise
NoExamplesLoaded == {}

LoadedExamples == IF training_file.exists THEN training_file.content ELSE {}

PrepareEvent ==
  IF training_file.exists THEN "prepare_training(file)" ELSE "prepare_training()"

\* lines 81-88: deduper = dedupe.Dedupe(fields); deduper.prepare_training(...)
PrepareTraining ==
  /\ pc = "settings?"
  /\ ~SettingsExists
  /\ training_file.exists => training_file.intact
  /\ deduper' = [kind |-> "active", fields |-> defineFields(fields),
                 pool |-> LoadedExamples, trained |-> FALSE]
  /\ Log(PrepareEvent)
  /\ pc' = "label"
  /\ UNCHANGED <<run, trained_ever, input_file, fields, files, startFiles, data_d,
                 clustered_dupes, labeled, answers, printed, error>>
  /\ UNCHANGED <<preVars, readVars, writeVars, extVars>>

\* a training file that does not parse
PrepareTrainingRaises ==
  /\ pc = "settings?"
  /\ ~SettingsExists
  /\ training_file.exists /\ ~training_file.intact
  /\ deduper' = [kind |-> "active", fields |-> defineFields(fields),
                 pool |-> {}, trained |-> FALSE]
  /\ Log(PrepareEvent)
  /\ Fail("prepare_training")
  /\ UNCHANGED <<run, trained_ever, input_file, fields, files, startFiles, data_d,
                 clustered_dupes, labeled, answers, printed>>
  /\ UNCHANGED <<preVars, readVars, writeVars, extVars>>

\* line 90: dedupe.console_label(deduper) starts and awaits the oracle
ConsoleLabel ==
  /\ pc = "label"
  /\ Log("console_label")
  /\ pc' = "awaiting_label"
  /\ UNCHANGED <<run, trained_ever, input_file, fields, files, startFiles, data_d, deduper,
                 clustered_dupes, labeled, answers, printed, error>>
  /\ UNCHANGED <<preVars, readVars, writeVars, extVars>>

\* the oracle answers yes or no for the pair shown
OracleLabels ==
  /\ pc = "awaiting_label"
  /\ answers < MaxLabels
  /\ \E l \in Labels :
       LET e == [pair |-> answers + 1, label |-> l]
       IN  /\ deduper' = [deduper EXCEPT !.pool = @ \cup {e}]
           /\ labeled' = labeled \cup {e}
  /\ answers' = answers + 1
  /\ UNCHANGED <<pc, run, trained_ever, input_file, fields, files, startFiles, data_d,
                 clustered_dupes, events, printed, error>>
  /\ UNCHANGED <<preVars, readVars, writeVars, extVars>>

\* the oracle answers unsure: no example
OracleUnsure ==
  /\ pc = "awaiting_label"
  /\ answers < MaxLabels
  /\ answers' = answers + 1
  /\ UNCHANGED <<pc, run, trained_ever, input_file, fields, files, startFiles, data_d, deduper,
                 clustered_dupes, labeled, events, printed, error>>
  /\ UNCHANGED <<preVars, readVars, writeVars, extVars>>

\* the oracle answers finished: console_label returns
OracleFinishes ==
  /\ pc = "awaiting_label"
  /\ Log("finished")
  /\ pc' = "train"
  /\ UNCHANGED <<run, trained_ever, input_file, fields, files, startFiles, data_d, deduper,
                 clustered_dupes, labeled, answers, printed, error>>
  /\ UNCHANGED <<preVars, readVars, writeVars, extVars>>

\* a plausible slip: a cancelled session is taken for a finished one and
\* setup goes on to train
OracleCancelsGoesOn ==
  /\ pc = "awaiting_label"
  /\ pc' = "train"
  /\ UNCHANGED <<run, trained_ever, input_file, fields, files, startFiles, data_d, deduper,
                 clustered_dupes, labeled, answers, events, printed, error>>
  /\ UNCHANGED <<preVars, readVars, writeVars, extVars>>

\* the session is cancelled (an interrupt or end of input): console_label raises
OracleCancels ==
  /\ pc = "awaiting_label"
  /\ Fail("console_label")
  /\ UNCHANGED <<run, trained_ever, input_file, fields, files, startFiles, data_d, deduper,
                 clustered_dupes, labeled, answers, events, printed>>
  /\ UNCHANGED <<preVars, readVars, writeVars, extVars>>

\* line 92: deduper.train() returns
TrainReturns ==
  /\ pc = "train"
  /\ HasBothLabels(deduper.pool)
  /\ deduper' = [deduper EXCEPT !.trained = TRUE]
  /\ trained_ever' = TRUE
  /\ Log("train")
  /\ pc' = "write_training"
  /\ UNCHANGED <<run, input_file, fields, files, startFiles, data_d,
                 clustered_dupes, labeled, answers, printed, error>>
  /\ UNCHANGED <<preVars, readVars, writeVars, extVars>>

\* a plausible slip: the exception of train is swallowed and setup goes on
TrainRaisesSwallowed ==
  /\ pc = "train"
  /\ Log("train")
  /\ pc' = "write_training"
  /\ UNCHANGED <<run, trained_ever, input_file, fields, files, startFiles, data_d, deduper,
                 clustered_dupes, labeled, answers, printed, error>>
  /\ UNCHANGED <<preVars, readVars, writeVars, extVars>>

\* line 92: deduper.train() raises (for one, when a label has no example) and
\* the exception leaves setup
TrainRaises ==
  /\ pc = "train"
  /\ Log("train")
  /\ Fail("train")
  /\ UNCHANGED <<run, trained_ever, input_file, fields, files, startFiles, data_d, deduper,
                 clustered_dupes, labeled, answers, printed>>
  /\ UNCHANGED <<preVars, readVars, writeVars, extVars>>

\* line 94: open(training_file, "w") raises; the file is as it was
OpenTrainingRaises ==
  /\ pc = "write_training"
  /\ Fail("open(training_file)")
  /\ UNCHANGED <<run, trained_ever, input_file, fields, files, startFiles, data_d, deduper,
                 clustered_dupes, labeled, answers, events, printed>>
  /\ UNCHANGED <<preVars, readVars, writeVars, extVars>>

\* the examples write_training writes: the deduper's whole pool
WrittenExamples == deduper.pool

\* lines 94-95: deduper.write_training(tf)
WriteTraining ==
  /\ pc = "write_training"
  /\ training_file' = StoredTraining(WrittenExamples)
  /\ Log("write_training")
  /\ pc' = "write_settings"
  /\ UNCHANGED <<run, trained_ever, input_file, fields, settings_file, output_file, startFiles,
                 data_d, deduper, clustered_dupes, labeled, answers, printed, error>>
  /\ UNCHANGED <<preVars, readVars, writeVars, extVars>>

\* write_training raises after open has truncated the file
WriteTrainingRaises ==
  /\ pc = "write_training"
  /\ training_file' = TruncatedTraining
  /\ Log("write_training")
  /\ Fail("write_training")
  /\ UNCHANGED <<run, trained_ever, input_file, fields, settings_file, output_file, startFiles,
                 data_d, deduper, clustered_dupes, labeled, answers, printed>>
  /\ UNCHANGED <<preVars, readVars, writeVars, extVars>>

\* line 97: open(settings_file, "wb") raises; the file is as it was
OpenSettingsRaises ==
  /\ pc = "write_settings"
  /\ Fail("open(settings_file)")
  /\ UNCHANGED <<run, trained_ever, input_file, fields, files, startFiles, data_d, deduper,
                 clustered_dupes, labeled, answers, events, printed>>
  /\ UNCHANGED <<preVars, readVars, writeVars, extVars>>

\* a plausible slip: write_settings is called on a file object that is never
\* flushed to settings_file, so the call returns and the file is as it was
WriteSettingsNotStored ==
  /\ pc = "write_settings"
  /\ Log("write_settings")
  /\ pc' = "match"
  /\ UNCHANGED <<run, trained_ever, input_file, fields, files, startFiles,
                 data_d, deduper, clustered_dupes, labeled, answers, printed, error>>
  /\ UNCHANGED <<preVars, readVars, writeVars, extVars>>

\* lines 97-98: deduper.write_settings(sf)
WriteSettings ==
  /\ pc = "write_settings"
  /\ settings_file' = StoredSettings([fields |-> deduper.fields, pool |-> deduper.pool])
  /\ Log("write_settings")
  /\ pc' = "match"
  /\ UNCHANGED <<run, trained_ever, input_file, fields, training_file, output_file, startFiles,
                 data_d, deduper, clustered_dupes, labeled, answers, printed, error>>
  /\ UNCHANGED <<preVars, readVars, writeVars, extVars>>

\* write_settings raises after open has created the file
WriteSettingsRaises ==
  /\ pc = "write_settings"
  /\ settings_file' = CorruptSettings
  /\ Log("write_settings")
  /\ Fail("write_settings")
  /\ UNCHANGED <<run, trained_ever, input_file, fields, training_file, output_file, startFiles,
                 data_d, deduper, clustered_dupes, labeled, answers, printed>>
  /\ UNCHANGED <<preVars, readVars, writeVars, extVars>>

\* The members of a cluster, in one order.
RECURSIVE SeqOf(_)
SeqOf(S) ==
  IF S = {} THEN <<>>
  ELSE LET x == CHOOSE y \in S : TRUE IN <<x>> \o SeqOf(S \ {x})

\* What match may return for the records ids: no cluster, or one cluster of
\* two or more records (three records or fewer leave room for one only).
RunScores == {9}
MatchOutcomes(ids) ==
  {<<>>} \cup
  UNION {{<<[records |-> SeqOf(S), scores |-> sc]>> : sc \in [1..Cardinality(S) -> RunScores]} :
           S \in {T \in SUBSET ids : Cardinality(T) >= 2}}

\* lines 100-101: clustered_dupes = deduper.match(data_d, 0.5)
Match ==
  /\ pc = "match"
  /\ clustered_dupes' \in MatchOutcomes(DOMAIN data_d)
  /\ Log("match")
  /\ pc' = "report"
  /\ UNCHANGED <<run, trained_ever, input_file, fields, files, startFiles, data_d, deduper,
                 labeled, answers, printed, error>>
  /\ UNCHANGED <<preVars, readVars, writeVars, extVars>>

MatchRaises ==
  /\ pc = "match"
  /\ Log("match")
  /\ Fail("match")
  /\ UNCHANGED <<run, trained_ever, input_file, fields, files, startFiles, data_d, deduper,
                 clustered_dupes, labeled, answers, printed>>
  /\ UNCHANGED <<preVars, readVars, writeVars, extVars>>

\* line 132: print("# duplicate sets", len(clustered_dupes))
Report ==
  /\ pc = "report"
  /\ printed' = Len(clustered_dupes)
  /\ pc' = "write_results"
  /\ UNCHANGED <<run, trained_ever, input_file, fields, files, startFiles, data_d, deduper,
                 clustered_dupes, labeled, answers, events, error>>
  /\ UNCHANGED <<preVars, readVars, writeVars, extVars>>

\* line 134 and lines 104-114: writeResults(clustered_dupes, output_file)
WriteOutput ==
  /\ pc = "write_results"
  /\ output_file' = StoredOutput(writeResults(clustered_dupes))
  /\ pc' = "done"
  /\ UNCHANGED <<run, trained_ever, input_file, fields, settings_file, training_file, startFiles,
                 data_d, deduper, clustered_dupes, labeled, answers, events, printed, error>>
  /\ UNCHANGED <<preVars, readVars, writeVars, extVars>>

\* line 113: open(output_file, "w") raises; the file is as it was
OpenOutputRaises ==
  /\ pc = "write_results"
  /\ Fail("open(output_file)")
  /\ UNCHANGED <<run, trained_ever, input_file, fields, files, startFiles, data_d, deduper,
                 clustered_dupes, labeled, answers, events, printed>>
  /\ UNCHANGED <<preVars, readVars, writeVars, extVars>>

\* lines 137-147: the script is run again, with the files the last run left
NextRun ==
  /\ pc \in {"done", "failed"}
  /\ run < MaxRuns
  /\ run' = run + 1
  /\ pc' = "setup"
  /\ input_file' \in InputFiles
  /\ fields' \in FieldLists
  /\ start_settings' = settings_file
  /\ start_training' = training_file
  /\ start_output' = output_file
  /\ data_d' = EmptyDict
  /\ deduper' = NoDeduper
  /\ clustered_dupes' = <<>>
  /\ labeled' = {}
  /\ answers' = 0
  /\ events' = <<>>
  /\ printed' = -1
  /\ error' = ""
  /\ UNCHANGED <<files, trained_ever>>
  /\ UNCHANGED <<preVars, readVars, writeVars, extVars>>

(***************************************************************************)
(* The specifications.                                                     *)
(***************************************************************************)
InitRun ==
  /\ pc = "setup"
  /\ run = 1
  /\ trained_ever = FALSE
  /\ input_file \in InputFiles
  /\ fields \in FieldLists
  /\ settings_file \in InitialSettings
  /\ training_file \in InitialTraining
  /\ output_file = NoOutput
  /\ start_settings = settings_file
  /\ start_training = training_file
  /\ start_output = output_file
  /\ LocalsReset
  /\ PreIdle /\ ReadIdle /\ WriteIdle /\ ExtIdle

NextRunStep ==
  \/ SetupAssertRaises \/ ReadDataReturns \/ ReadDataRaises
  \/ LoadSettings \/ LoadSettingsRaises
  \/ PrepareTraining \/ PrepareTrainingRaises
  \/ ConsoleLabel \/ OracleLabels \/ OracleUnsure \/ OracleFinishes \/ OracleCancels
  \/ TrainReturns \/ TrainRaises
  \/ OpenTrainingRaises \/ WriteTraining \/ WriteTrainingRaises
  \/ OpenSettingsRaises \/ WriteSettings \/ WriteSettingsRaises
  \/ Match \/ MatchRaises \/ Report \/ WriteOutput \/ OpenOutputRaises
  \/ NextRun

Spec == InitRun /\ [][NextRunStep]_vars

InitPre ==
  /\ column \in Texts \cup {None}
  /\ result = NotCalled /\ again = NotCalled /\ ppc = "start"
  /\ ReadIdle /\ WriteIdle /\ RunIdle /\ ExtIdle

NextPre == CallPreProcess \/ CallPreProcessAgain

SpecPre == InitPre /\ [][NextPre]_vars

InitRead ==
  /\ filename \in CsvFiles
  /\ read = NotCalled /\ rpc = "start"
  /\ PreIdle /\ WriteIdle /\ RunIdle /\ ExtIdle

NextRead == CallReadData

SpecRead == InitRead /\ [][NextRead]_vars

InitWrite ==
  /\ dupes \in ClusterLists
  /\ cluster_membership = EmptyDict /\ wpc = "start"
  /\ PreIdle /\ ReadIdle /\ RunIdle /\ ExtIdle

NextWrite == CallWriteResults

SpecWrite == InitWrite /\ [][NextWrite]_vars

InitOrder ==
  /\ dupes \in MatchedLists
  /\ cluster_membership = EmptyDict /\ wpc = "idle"
  /\ arrival = <<>> /\ membership_permuted = EmptyDict /\ opc = "start"
  /\ PreIdle /\ ReadIdle /\ RunIdle /\ CleanIdle /\ ExcelIdle /\ SnowIdle
  /\ AppIdle

NextOrder == CallWriteResultsPermuted

SpecOrder == InitOrder /\ [][NextOrder]_vars

\* consecutive executions that start with no settings file
InitFresh == InitRun /\ settings_file = NoSettings

SpecFresh == InitFresh /\ [][NextRunStep]_vars

InitClean ==
  /\ \E cols \in ColumnLists : dataframe \in Frames(cols)
  /\ dataframe_before = EmptyFrame
  /\ columns \in Arguments
  /\ debug \in BOOLEAN
  /\ removed = NotCalled /\ cpc = "start"
  /\ PreIdle /\ ReadIdle /\ WriteIdle /\ RunIdle /\ OrderIdle /\ ExcelIdle
  /\ SnowIdle
  /\ AppIdle

NextClean == CallRemoveColumns

SpecClean == InitClean /\ [][NextClean]_vars

\* lines 7-10: a handler just constructed, on a file that may not exist
InitExcel ==
  /\ dataframes = NoSheets
  /\ workbook \in InitialWorkbooks
  /\ returned = NotCalled /\ calls = <<>>
  /\ PreIdle /\ ReadIdle /\ WriteIdle /\ RunIdle /\ OrderIdle /\ CleanIdle
  /\ SnowIdle
  /\ AppIdle

NextExcel ==
  \/ ReadSheetReturns \/ ReadSheetFails
  \/ SaveSheetReturns \/ SaveSheetFails
  \/ GetDataframe

SpecExcel == InitExcel /\ [][NextExcel]_vars

\* lines 20-28: a runner just constructed
InitSnow ==
  /\ connection = "None" /\ open_cursors = 0
  /\ fetched = NotCalled /\ sf_calls = <<>>
  /\ PreIdle /\ ReadIdle /\ WriteIdle /\ RunIdle /\ OrderIdle /\ CleanIdle
  /\ ExcelIdle
  /\ AppIdle

NextSnow ==
  \/ ConnectReturns \/ ConnectRaises
  \/ ExecuteQueryReturns \/ ExecuteQueryWithoutConnection \/ ExecuteQueryFails
  \/ CloseConnection

SpecSnow == InitSnow /\ [][NextSnow]_vars

\* the first execution: nothing clicked yet or 'Write App' clicked at once,
\* with or without an AppGenie.zip in the working directory
InitApp ==
  /\ execution = 1 /\ app_pc = "display_ui"
  /\ clicked \in BOOLEAN
  /\ feature_input \in FeatureInputs
  /\ prompt = <<>> /\ summary = None /\ offered = None /\ app_error = ""
  /\ zip_file \in {NoZip, LeftoverZip}
  /\ PreIdle /\ ReadIdle /\ WriteIdle /\ RunIdle /\ OrderIdle /\ CleanIdle
  /\ ExcelIdle /\ SnowIdle

NextApp ==
  \/ OptimizePrompt \/ OptimizePromptRaises
  \/ WriteApp \/ NotClicked
  \/ OfferDownload \/ OpenZipRaises
  \/ Rerun

SpecApp == InitApp /\ [][NextApp]_vars

(***************************************************************************)
(* The claims.                                                             *)
(***************************************************************************)
Occurred(e) == \E i \in DOMAIN events : events[i] = e

Before(e1, e2) ==
  \E i, j \in DOMAIN events : i < j /\ events[i] = e1 /\ events[j] = e2

TrainingEvents ==
  {"prepare_training(file)", "prepare_training()", "console_label", "train",
   "write_training", "write_settings"}

AfterMatch == {"report", "write_results", "done"}

StoredModelOf(file) ==
  [kind |-> "static", fields |-> file.content.fields,
   pool |-> file.content.pool, trained |-> TRUE]

Ended == pc \in {"done", "failed"}

\* The calls of setup that come before match on the settings path.
BeforeLoaded == {"assert", "readData", "StaticDedupe"}

\* C1, as claimed: every execution that finds a settings file loads the
\* stored model and calls match on it, calls none of prepare_training,
\* console_label, train, write_training and write_settings, and leaves the
\* training file and the settings file as they were.
C1_AsClaimed ==
  (start_settings.exists /\ Ended) =>
    /\ \A e \in TrainingEvents : ~Occurred(e)
    /\ training_file = start_training
    /\ settings_file = start_settings
    /\ Occurred("StaticDedupe") /\ Occurred("match")
    /\ deduper = StoredModelOf(start_settings)

\* C1, amended: in an execution that finds a settings file, none of
\* prepare_training, console_label, train, write_training and write_settings
\* is called and the training file and the settings file stay as they were;
\* unless the execution fails in the assertions, in readData or in loading
\* the settings file, the stored model is loaded and match is called on it.
C1_SettingsFileSkipsTraining ==
  start_settings.exists =>
    /\ \A e \in TrainingEvents : ~Occurred(e)
    /\ training_file = start_training
    /\ settings_file = start_settings
    /\ (pc = "match" \/ Occurred("match")) =>
         /\ Occurred("StaticDedupe")
         /\ deduper = StoredModelOf(start_settings)
    /\ (Ended /\ error \notin BeforeLoaded) => Occurred("match")

C1_Witness ==
  /\ start_settings.exists
  /\ pc = "done"
  /\ Occurred("match")
  /\ training_file.exists

\* C2: an execution that finds a settings file that is corrupt, or was
\* written for another field list than the one it is given, fails before
\* match is called and makes no call of the training path.
C2_MismatchedSettingsFailFast ==
  (/\ start_settings.exists
   /\ \/ ~start_settings.intact
      \/ start_settings.content.fields # defineFields(fields))
  => /\ ~Occurred("match")
     /\ pc \notin {"match"} \cup AfterMatch
     /\ \A e \in TrainingEvents : ~Occurred(e)

\* C3: in an execution that finds no settings file, write_settings is called
\* only after train has returned, and when train raises the execution ends
\* with write_settings not called and no settings file on disk.
C3_NoSettingsWithoutTraining ==
  ~start_settings.exists =>
    /\ Occurred("write_settings") => (deduper.trained /\ Before("train", "write_settings"))
    /\ settings_file.exists => deduper.trained
    /\ (pc = "failed" /\ error = "train") =>
         (~Occurred("write_settings") /\ ~settings_file.exists)

C3_Witness ==
  /\ ~start_settings.exists
  /\ pc = "failed" /\ error = "train"
  /\ labeled # {}
  /\ \A e \in deduper.pool : e.label = "match"

\* C4: when an execution of the training path ends because train raised or
\* the labeling session was cancelled, every example labeled in the session
\* is in the training file on disk.
C4_LabeledExamplesKeptOnFailure ==
  (/\ ~start_settings.exists
   /\ pc = "failed" /\ error \in {"train", "console_label"}
   /\ labeled # {})
  => /\ training_file.exists /\ training_file.intact
     /\ labeled \subseteq training_file.content

\* C5: in an execution that finds no settings file and a training file, the
\* examples of the file are in the deduper's pool, put there by
\* prepare_training with the file, before the labeling session starts, and the
\* training file an execution that ends well leaves holds all of them.
C5_TrainingFileSeedsThePool ==
  (~start_settings.exists /\ start_training.exists) =>
    /\ Occurred("console_label") =>
         /\ Before("prepare_training(file)", "console_label")
         /\ ~Occurred("prepare_training()")
         /\ start_training.content \subseteq deduper.pool
    /\ pc \in {"write_settings", "match"} \cup AfterMatch =>
         /\ training_file.intact
         /\ start_training.content \subseteq training_file.content

C5_Witness ==
  /\ ~start_settings.exists /\ start_training.exists
  /\ start_training.content # {}
  /\ labeled # {} /\ ~(labeled \subseteq start_training.content)
  /\ pc = "done"

\* C6: preProcess applied to a result of preProcess returns that result.
C6_PreProcessIdempotent ==
  ppc = "twice" => (~again.raised /\ again.value = result.value)

RowsFit(file) == \A i \in 1..Len(file.rows) : Len(file.rows[i]) <= Len(file.header)

\* C7: preProcess does not raise on an absent value: readData of a file whose
\* rows may be shorter than the header (the values they lack being None)
\* returns, with a record for every row that is not empty.
C7_AbsentValuesNeverRaise ==
  (rpc = "read" /\ IdColumn \in Range(filename.header) /\ RowsFit(filename)) =>
    /\ ~read.raised
    /\ \A i \in 1..Len(filename.rows) :
         LET row == filename.rows[i]
             row_id == DictRow(filename.header, row)[IdColumn]
         IN  row # <<>> => row_id \in DOMAIN read.value

\* A row that is not empty has no listing_id: the header has no such column,
\* or the row ends before it.
LacksIdentifier(file) ==
  /\ file.exists
  /\ \E i \in 1..Len(file.rows) :
       /\ file.rows[i] # <<>>
       /\ \/ IdColumn \notin Range(file.header)
          \/ DictRow(file.header, file.rows[i])[IdColumn] = None

\* C9: an execution whose input rows lack the listing_id column ends in
\* readData with an error: no library call is made, no deduper is built and
\* the settings, training and output files stay as they were.
C9_MissingIdentifierAborts ==
  LacksIdentifier(input_file) =>
    /\ pc \in {"setup", "failed"}
    /\ pc = "failed" => error = "readData"
    /\ events = <<>>
    /\ deduper = NoDeduper
    /\ settings_file = start_settings
    /\ training_file = start_training
    /\ output_file = start_output

C9_Witness ==
  /\ LacksIdentifier(input_file)
  /\ IdColumn \notin Range(input_file.header)
  /\ pc = "failed"
  /\ start_settings.exists /\ start_training.exists /\ start_output.exists

\* C10: for pairwise disjoint clusters, writeResults maps each member of the
\* k-th cluster (from 0) to Cluster ID k and to the score at its own position
\* in the cluster's scores, uses no identifier outside 0..n-1, and gives no
\* entry to a record of no cluster.
C10_PositionalClusterIds ==
  (wpc = "written" /\ PairwiseDisjoint(dupes)) =>
    /\ \A k \in 1..Len(dupes) : \A j \in 1..Len(dupes[k].records) :
         LET record_id == dupes[k].records[j]
         IN  /\ record_id \in DOMAIN cluster_membership
             /\ cluster_membership[record_id] =
                  [ClusterID |-> k - 1, confidence_score |-> dupes[k].scores[j]]
    /\ \A r \in DOMAIN cluster_membership :
         cluster_membership[r].ClusterID \in 0..(Len(dupes) - 1)
    /\ DOMAIN cluster_membership = UNION {Members(dupes[k]) : k \in 1..Len(dupes)}

C10_Witness ==
  /\ wpc = "written"
  /\ PairwiseDisjoint(dupes)
  /\ Len(dupes) = 2
  /\ Len(dupes[1].records) = 2 /\ dupes[1].scores[1] # dupes[1].scores[2]
  /\ RecordIds \ DOMAIN cluster_membership # {}

\* C14: a result of preProcess that is not None holds no newline and no two
\* adjacent spaces.
C14_WhitespaceCollapsed ==
  (ppc = "once" /\ ~result.raised /\ result.value # None) =>
    /\ \A i \in 1..Len(result.value) : result.value[i] # NL
    /\ \A i \in 1..(Len(result.value) - 1) :
         ~(result.value[i] = SP /\ result.value[i + 1] = SP)

\* C15: preProcess returns None or a text that is not empty, and a text it
\* returns neither begins nor ends with whitespace, a double quote or a
\* single quote.
C15_NoOuterQuotesOrWhitespace ==
  (ppc = "once" /\ ~result.raised /\ result.value # None) =>
    /\ result.value # <<>>
    /\ result.value[1] \notin Whitespace \cup {DQ, SQ}
    /\ result.value[Len(result.value)] \notin Whitespace \cup {DQ, SQ}

\* the rows DictReader yields (it skips empty lines), by position
FiledRows(file) == {i \in 1..Len(file.rows) : file.rows[i] # <<>>}

RowId(file, i) == DictRow(file.header, file.rows[i])[IdColumn]

LastRowWith(file, id) ==
  CHOOSE i \in FiledRows(file) :
    /\ RowId(file, i) = id
    /\ \A j \in FiledRows(file) : RowId(file, j) = id => j <= i

\* C17: the mapping readData returns has exactly one record per distinct
\* listing_id value of the rows (so as many records as distinct identifiers),
\* and the record under an identifier is built from the last row carrying it.
C17_OneRecordPerIdLastWins ==
  (rpc = "read" /\ ~read.raised) =>
    LET ids == {RowId(filename, i) : i \in FiledRows(filename)}
    IN  /\ DOMAIN read.value = ids
        /\ Cardinality(DOMAIN read.value) = Cardinality(ids)
        /\ \A id \in ids :
             read.value[id] =
               CleanRow(filename.header, filename.rows[LastRowWith(filename, id)])

C17_Witness ==
  /\ rpc = "read" /\ ~read.raised
  /\ Len(filename.rows) = 2
  /\ FiledRows(filename) = {1, 2}
  /\ RowId(filename, 1) = RowId(filename, 2)
  /\ CleanRow(filename.header, filename.rows[1])
       # CleanRow(filename.header, filename.rows[2])
  /\ Cardinality(DOMAIN read.value) = 1

Count(e) == Cardinality({i \in DOMAIN events : events[i] = e})

AfterLabeling == {"train", "write_training", "write_settings", "match"}

\* C13: in a run on the training path train is called at most once and only
\* after the oracle has finished the labeling session; while the session
\* awaits a label none of train, write_training, write_settings and match has
\* been called; and a run that completes has made its calls in the order
\* prepare_training, console_label (ended by the oracle), train,
\* write_training, write_settings, match.
C13_TrainingStepsInOrder ==
  ~start_settings.exists =>
    /\ Count("train") <= 1
    /\ Occurred("train") =>
         /\ Before("console_label", "finished")
         /\ Before("finished", "train")
    /\ pc = "awaiting_label" =>
         /\ \A e \in AfterLabeling : ~Occurred(e)
         /\ ~Occurred("finished")
    /\ pc = "done" =>
         \E p \in {"prepare_training(file)", "prepare_training()"} :
           events = <<p, "console_label", "finished", "train",
                      "write_training", "write_settings", "match">>

C13_Witness ==
  /\ ~start_settings.exists
  /\ pc = "done"
  /\ answers = MaxLabels
  /\ Occurred("train") /\ Occurred("match")

Grouped(m, r, s) == m[r].ClusterID = m[s].ClusterID

Partition(m) == {{s \in DOMAIN m : Grouped(m, r, s)} : r \in DOMAIN m}

BothWritesSucceeded ==
  /\ ~start_settings.exists
  /\ Occurred("write_settings")
  /\ ~(pc = "failed" /\ error = "write_settings")

\* C16, as claimed: every run that starts with the settings file an earlier
\* run stored takes the settings path (it loads the stored model) and makes
\* no labeling or training call.
C16_AsClaimed ==
  (start_settings.exists /\ start_settings.intact /\ Ended) =>
    /\ Occurred("StaticDedupe")
    /\ \A e \in TrainingEvents : ~Occurred(e)

\* C16: across consecutive runs on the same paths: once train and both writes
\* of a training-path run have succeeded, the training file and then the
\* settings file are written before match is called, and the settings file
\* stays as written in every later run; a run that starts with a settings
\* file makes no labeling or training call and, when it gets as far as match,
\* has loaded the stored model; and a settings file is never present unless
\* train has returned in this or an earlier run.
C16_StoredModelReused ==
  /\ [](BothWritesSucceeded =>
          /\ \E p \in {"prepare_training(file)", "prepare_training()"} :
               SubSeq(events, 1, 6) = <<p, "console_label", "finished", "train",
                                        "write_training", "write_settings">>
          /\ training_file.exists /\ training_file.intact
          /\ settings_file.exists /\ settings_file.intact)
  /\ [](start_settings.exists =>
          /\ \A e \in TrainingEvents \cup {"finished"} : ~Occurred(e)
          /\ pc \in {"match"} \cup AfterMatch => Occurred("StaticDedupe"))
  /\ [](settings_file.exists => trained_ever)
  /\ [][/\ settings_file.exists => settings_file'.exists
        /\ settings_file.intact => settings_file' = settings_file]_vars

C16_Witness ==
  /\ run = 2
  /\ start_settings.exists /\ start_settings.intact
  /\ trained_ever
  /\ Occurred("StaticDedupe")
  /\ pc = "done"

\* C12: remove_columns called with a non-empty list of labels that are all
\* columns of the dataframe completes without an error, and leaves the
\* dataframe with exactly the other columns, in their order, and with every
\* row's cells under those columns as they were.
C12_RemoveColumnsDropsThem ==
  (/\ cpc = "called"
   /\ columns.islist /\ columns.names # <<>>
   /\ Range(columns.names) \subseteq Range(dataframe_before.columns)) =>
    /\ ~removed.raised
    /\ Range(dataframe.columns)
         = Range(dataframe_before.columns) \ Range(columns.names)
    /\ dataframe.columns = Without(dataframe_before.columns, Range(columns.names))
    /\ Len(dataframe.rows) = Len(dataframe_before.rows)
    /\ \A i \in 1..Len(dataframe.rows) : \A c \in Range(dataframe.columns) :
         dataframe.rows[i][c] = dataframe_before.rows[i][c]

Stores(c) == c.op \in {"read_sheet", "save_sheet"} /\ ~c.failed

\* the frame of the most recent successful read or save of sheet_name among
\* the first n calls, None when there was none
RECURSIVE MostRecent(_, _)
MostRecent(sheet_name, n) ==
  IF n = 0 THEN None
  ELSE IF Stores(calls[n]) /\ calls[n].sheet_name = sheet_name THEN calls[n].df
  ELSE MostRecent(sheet_name, n - 1)

\* C18: a read_sheet or save_sheet whose file operation fails returns None
\* and leaves the cache as it was; one that succeeds sets the cache entry of
\* its sheet to the frame read or saved and changes no other entry;
\* get_dataframe changes nothing and returns the frame of the most recent
\* successful read or save of its sheet, or None when there was none; and no
\* call raises.
C18_CacheCoherent ==
  /\ [][calls' # calls =>
          LET c == calls'[Len(calls')]
          IN  /\ ~returned'.raised
              /\ c.failed => dataframes' = dataframes /\ returned'.value = None
              /\ Stores(c) =>
                   /\ dataframes' = Put(dataframes, c.sheet_name, c.df)
                   /\ \A s \in DOMAIN dataframes \ {c.sheet_name} :
                        dataframes'[s] = dataframes[s]
                   /\ returned'.value
                        = IF c.op = "read_sheet" THEN c.df ELSE None
              /\ c.op = "get_dataframe" =>
                   /\ dataframes' = dataframes
                   /\ returned'.value = MostRecent(c.sheet_name, Len(calls))]_vars
  /\ [](\A s \in Sheets : Get(dataframes, s) = MostRecent(s, Len(calls)))

C18_Witness ==
  /\ Len(calls) = 3
  /\ calls[1].op = "save_sheet" /\ ~calls[1].failed
  /\ calls[2].op = "save_sheet" /\ calls[2].failed
  /\ calls[2].sheet_name = calls[1].sheet_name /\ calls[2].df # calls[1].df
  /\ calls[3].op = "get_dataframe" /\ calls[3].sheet_name = calls[1].sheet_name
  /\ returned = Returned(calls[1].df)
  /\ workbook.sheets[calls[1].sheet_name] = calls[2].df

LastCall == sf_calls[Len(sf_calls)]

\* C19: execute_query never raises and returns None whenever it has no
\* result to give; and when it has returned, failed or not, every cursor it
\* opened is closed.
C19_NoCursorLeftOpen ==
  (sf_calls # <<>> /\ LastCall.op = "execute_query") =>
    /\ ~fetched.raised
    /\ LastCall.failed => fetched.value = None
    /\ connection # "open" => fetched.value = None
    /\ open_cursors = 0

\* C20: the AppGenie.zip behind the 'Download App' button was written by
\* download_zip in the same execution: the download is offered only after
\* 'Write App' was clicked and code was generated, and the archive holds
\* every helper file and main.py with the summary of that execution.
C20_DownloadIsThisExecutionsArchive ==
  app_pc = "rendered" =>
    /\ clicked /\ summary # None
    /\ offered.written_in = execution
    /\ offered.files = HelperFiles \cup {"main.py"}
    /\ offered.main = summary

=============================================================================
